---- MODULE Spec2Model ----
(***************************************************************************)
(* Model of eta/core/status.py: the status records of a pipeline and of    *)
(* its jobs (PipelineStatus, JobStatus, StatusMessage), their transitions, *)
(* the publish hook and the dictionary form used to persist them.          *)
(*                                                                         *)
(* A method is an operator from the object (and its arguments) to a record *)
(* [self |-> the object after the call, ret |-> the value returned]; an    *)
(* action is one call of a method by the code that drives the pipeline.    *)
(***************************************************************************)
EXTENDS Integers, Sequences, FiniteSets, TLC

VARIABLES
    status,       \* the fields of the PipelineStatus instance
    job_objs,     \* the JobStatus instances, in order of allocation
    clock,        \* the last reading of the wall clock
    ncalls,       \* the number of calls made
    ret,          \* the last call and how it ended: [op, raised, value]
    invoked,      \* the callbacks the last call invoked, in order, with their argument
    history       \* what the calls made so far were:
                  \*   calls, job_calls: the calls that wrote each log, in order
                  \*   add_job: the names passed to add_job, in order
                  \*   set_publish_callback: the function registered last
                  \*   replaced: a registration has replaced another function
                  \*   from_dict: from_dict built the instance and add_job has
                  \*     not been called on it since

vars == <<status, job_objs, clock, ncalls, ret, invoked, history>>

----------------------------------------------------------------------------
(* Bounds of the model *)

\* calls made in one run
MaxCalls == 4

----------------------------------------------------------------------------
(* Values *)

\* Python's None, where a text or a callback is expected
None == "None"
\* Python's None, where a reference to a JobStatus is expected
NoJob == 0
\* an argument left out of a call, so that the default applies
NoArg == "<no argument>"

PipelineState == {"READY", "QUEUED", "RUNNING", "FAILED", "COMPLETE"}
JobState == {"READY", "QUEUED", "SKIPPED", "RUNNING", "FAILED", "COMPLETE"}

PipelineNames == {"demo"}
JobNames == {"job1", "job2"}
\* message texts a caller passes to a transition, or leaves out
Texts == {NoArg, "note"}
\* message texts a caller passes to add_message
Notes == {"note"}
\* the functions a caller registers; "faulty" raises when it is called
Callbacks == {"observer", "faulty"}
CallbackError == "CallbackError"
TypeError == "TypeError"

\* the default of the `message` parameter of each transition
DefaultMessage(op) ==
    CASE op = "PipelineStatus.start"    -> "Pipeline started"
      [] op = "PipelineStatus.complete" -> "Pipeline completed"
      [] op = "PipelineStatus.fail"     -> "Pipeline failed"
      [] op = "JobStatus.skip"          -> "Job skipped"
      [] op = "JobStatus.start"         -> "Job started"
      [] op = "JobStatus.complete"      -> "Job completed"
      [] op = "JobStatus.fail"          -> "Job failed"

\* the value of the `message` parameter in a call of `op` with argument `arg`
Message(op, arg) == IF arg = NoArg THEN DefaultMessage(op) ELSE arg

\* truth value of a Python value: None and the empty text are false
Truthy(v) == v # None /\ v # ""

\* the times the wall clock shows during a run, in ISO 8601 format
IsoTimes == <<"2024-01-01T00:00:00", "2024-01-01T00:00:01">>

\* eta.core.utils.get_isotime(): the reading `now` of the clock as text
get_isotime(now) == IsoTimes[now]

\* the readings the clock can give next: the last one again, or a later one
Readings == {t \in DOMAIN IsoTimes : t >= clock}

Last(s) == s[Len(s)]

----------------------------------------------------------------------------
(* StatusMessage *)

StatusMessage(message, time, now) ==
    [message |-> message,
     time    |-> IF Truthy(time) THEN time ELSE get_isotime(now)]

----------------------------------------------------------------------------
(* JobStatus *)

\* __init__() with `self.state = JobState.READY`
JobStatus_in_ready(name) ==
    [name          |-> name,
     state         |-> "READY",
     start_time    |-> None,
     complete_time |-> None,
     fail_time     |-> None,
     messages      |-> <<>>]

JobStatus(name) ==
    [name          |-> name,
     state         |-> "QUEUED",
     start_time    |-> None,
     complete_time |-> None,
     fail_time     |-> None,
     messages      |-> <<>>]

JobStatus_add_message(self, message, now) ==
    LET status_message == StatusMessage(message, None, now)
    IN  [self |-> [self EXCEPT !.messages = Append(@, status_message)],
         ret  |-> status_message.time]

\* skip() that also sets `self.start_time = None`
JobStatus_skip_clearing_start_time(self, message, now) ==
    LET m == Message("JobStatus.skip", message)
        r == JobStatus_add_message(self, m, now)
    IN  [self |-> [r.self EXCEPT !.start_time = None, !.state = "SKIPPED"],
         ret  |-> None]

\* skip() with `return self.add_message(message)`
JobStatus_skip_returning_time(self, message, now) ==
    LET m == Message("JobStatus.skip", message)
        r == JobStatus_add_message(self, m, now)
    IN  [self |-> [r.self EXCEPT !.state = "SKIPPED"],
         ret  |-> r.ret]

JobStatus_skip(self, message, now) ==
    LET m == Message("JobStatus.skip", message)
        r == JobStatus_add_message(self, m, now)
    IN  [self |-> [r.self EXCEPT !.state = "SKIPPED"],
         ret  |-> None]

\* start() with `self.messages = []` before the message is added
JobStatus_start_with_new_log(self, message, now) ==
    LET m == Message("JobStatus.start", message)
        r == JobStatus_add_message([self EXCEPT !.messages = <<>>], m, now)
    IN  [self |-> [r.self EXCEPT !.start_time = r.ret, !.state = "RUNNING"],
         ret  |-> None]

\* start() that returns at once when the job has ended
JobStatus_start_unless_ended(self, message, now) ==
    LET m == Message("JobStatus.start", message)
        r == JobStatus_add_message(self, m, now)
    IN  IF self.state \in {"SKIPPED", "FAILED", "COMPLETE"}
        THEN [self |-> self, ret |-> None]
        ELSE [self |-> [r.self EXCEPT !.start_time = r.ret, !.state = "RUNNING"],
              ret  |-> None]

JobStatus_start(self, message, now) ==
    LET m == Message("JobStatus.start", message)
        r == JobStatus_add_message(self, m, now)
    IN  [self |-> [r.self EXCEPT !.start_time = r.ret, !.state = "RUNNING"],
         ret  |-> None]

\* complete() without `self.complete_time = ...`
JobStatus_complete_without_time(self, message, now) ==
    LET m == Message("JobStatus.complete", message)
        r == JobStatus_add_message(self, m, now)
    IN  [self |-> [r.self EXCEPT !.state = "COMPLETE"],
         ret  |-> None]

JobStatus_complete(self, message, now) ==
    LET m == Message("JobStatus.complete", message)
        r == JobStatus_add_message(self, m, now)
    IN  [self |-> [r.self EXCEPT !.complete_time = r.ret, !.state = "COMPLETE"],
         ret  |-> None]

\* fail() that also sets `self.start_time = None`
JobStatus_fail_clearing_start_time(self, message, now) ==
    LET m == Message("JobStatus.fail", message)
        r == JobStatus_add_message(self, m, now)
    IN  [self |-> [r.self EXCEPT !.fail_time = r.ret, !.start_time = None,
                                 !.state = "FAILED"],
         ret  |-> None]

JobStatus_fail(self, message, now) ==
    LET m == Message("JobStatus.fail", message)
        r == JobStatus_add_message(self, m, now)
    IN  [self |-> [r.self EXCEPT !.fail_time = r.ret, !.state = "FAILED"],
         ret  |-> None]

----------------------------------------------------------------------------
(* PipelineStatus *)

PipelineStatus(name) ==
    [name              |-> name,
     state             |-> "QUEUED",
     start_time        |-> None,
     complete_time     |-> None,
     fail_time         |-> None,
     messages          |-> <<>>,
     jobs              |-> <<>>,
     _publish_callback |-> None,
     _active_job       |-> NoJob]

\* set_publish_callback() that keeps a callback already registered
PipelineStatus_set_publish_callback_once(self, publish_callback) ==
    [self |-> IF Truthy(self._publish_callback)
              THEN self
              ELSE [self EXCEPT !._publish_callback = publish_callback],
     ret  |-> None]

PipelineStatus_set_publish_callback(self, publish_callback) ==
    [self |-> [self EXCEPT !._publish_callback = publish_callback],
     ret  |-> None]

\* a call of a registered function with the pipeline `arg`: what it does is
\* the caller's business; "faulty" raises, the others return nothing
CallCallback(publish_callback, arg) ==
    [raised |-> publish_callback = "faulty",
     value  |-> IF publish_callback = "faulty" THEN CallbackError ELSE None]

\* publish() without `if self._publish_callback:`; calling None is a TypeError
PipelineStatus_publish_unguarded(self) ==
    IF self._publish_callback = None
    THEN [self |-> self, raised |-> TRUE, ret |-> TypeError, invoked |-> <<>>]
    ELSE LET r == CallCallback(self._publish_callback, self)
         IN  [self    |-> self,
              raised  |-> r.raised,
              ret     |-> IF r.raised THEN r.value ELSE None,
              invoked |-> <<[callback |-> self._publish_callback, arg |-> self]>>]

\* publish() with the call in `try: ... except Exception:`, which drops a
\* callback that raised
PipelineStatus_publish_catching(self) ==
    IF Truthy(self._publish_callback)
    THEN LET r == CallCallback(self._publish_callback, self)
         IN  [self    |-> IF r.raised
                          THEN [self EXCEPT !._publish_callback = None]
                          ELSE self,
              raised  |-> FALSE,
              ret     |-> None,
              invoked |-> <<[callback |-> self._publish_callback, arg |-> self]>>]
    ELSE [self |-> self, raised |-> FALSE, ret |-> None, invoked |-> <<>>]

PipelineStatus_publish(self) ==
    IF Truthy(self._publish_callback)
    THEN LET r == CallCallback(self._publish_callback, self)
         IN  [self    |-> self,
              raised  |-> r.raised,
              ret     |-> IF r.raised THEN r.value ELSE None,
              invoked |-> <<[callback |-> self._publish_callback, arg |-> self]>>]
    ELSE [self |-> self, raised |-> FALSE, ret |-> None, invoked |-> <<>>]

PipelineStatus_active_job(self) == self._active_job

\* add_job() that completes the active job when it is still running
PipelineStatus_add_job_retiring_active(self, objs, name) ==
    LET ref == Len(objs) + 1
        running == /\ self._active_job # NoJob
                   /\ objs[self._active_job].state = "RUNNING"
        retired == IF running
                   THEN [objs EXCEPT ![self._active_job].state = "COMPLETE"]
                   ELSE objs
    IN  [self |-> [self EXCEPT !._active_job = ref,
                               !.jobs = Append(@, ref)],
         objs |-> Append(retired, JobStatus(name)),
         ret  |-> ref]

\* add_job() with `self.jobs.append(JobStatus(name))`: the entry of jobs
\* is a second instance, not the active job that is returned
PipelineStatus_add_job_appending_another(self, objs, name) ==
    LET ref == Len(objs) + 1
    IN  [self |-> [self EXCEPT !._active_job = ref,
                               !.jobs = Append(@, ref + 1)],
         objs |-> objs \o <<JobStatus(name), JobStatus(name)>>,
         ret  |-> ref]

\* add_job() that leaves a running job active
PipelineStatus_add_job_keeping_running(self, objs, name) ==
    LET ref == Len(objs) + 1
        running == /\ self._active_job # NoJob
                   /\ objs[self._active_job].state = "RUNNING"
    IN  [self |-> [self EXCEPT !._active_job = IF running THEN @ ELSE ref,
                               !.jobs = Append(@, ref)],
         objs |-> Append(objs, JobStatus(name)),
         ret  |-> ref]

\* add_job() with `self.jobs.insert(0, self._active_job)`
PipelineStatus_add_job_in_front(self, objs, name) ==
    LET ref == Len(objs) + 1
    IN  [self |-> [self EXCEPT !._active_job = ref,
                               !.jobs = <<ref>> \o @],
         objs |-> Append(objs, JobStatus(name)),
         ret  |-> ref]

\* `objs` are the JobStatus instances allocated so far; the new one is
\* allocated after them and `ret` is the reference to it
PipelineStatus_add_job(self, objs, name) ==
    LET ref == Len(objs) + 1
    IN  [self |-> [self EXCEPT !._active_job = ref,
                               !.jobs = Append(@, ref)],
         objs |-> Append(objs, JobStatus(name)),
         ret  |-> ref]

\* add_message() that sets a queued pipeline running
PipelineStatus_add_message_setting_running(self, message, now) ==
    LET status_message == StatusMessage(message, None, now)
    IN  [self |-> [self EXCEPT !.messages = Append(@, status_message),
                               !.state = IF @ = "QUEUED" THEN "RUNNING" ELSE @],
         ret  |-> status_message.time]

\* add_message() with `self.messages.insert(0, status_message)`
PipelineStatus_add_message_in_front(self, message, now) ==
    LET status_message == StatusMessage(message, None, now)
    IN  [self |-> [self EXCEPT !.messages = <<status_message>> \o @],
         ret  |-> status_message.time]

PipelineStatus_add_message(self, message, now) ==
    LET status_message == StatusMessage(message, None, now)
    IN  [self |-> [self EXCEPT !.messages = Append(@, status_message)],
         ret  |-> status_message.time]

PipelineStatus_start(self, message, now) ==
    LET m == Message("PipelineStatus.start", message)
        r == PipelineStatus_add_message(self, m, now)
    IN  [self |-> [r.self EXCEPT !.start_time = r.ret, !.state = "RUNNING"],
         ret  |-> None]

PipelineStatus_complete(self, message, now) ==
    LET m == Message("PipelineStatus.complete", message)
        r == PipelineStatus_add_message(self, m, now)
    IN  [self |-> [r.self EXCEPT !.complete_time = r.ret, !.state = "COMPLETE"],
         ret  |-> None]

PipelineStatus_fail(self, message, now) ==
    LET m == Message("PipelineStatus.fail", message)
        r == PipelineStatus_add_message(self, m, now)
    IN  [self |-> [r.self EXCEPT !.fail_time = r.ret, !.state = "FAILED"],
         ret  |-> None]

----------------------------------------------------------------------------
(* The dictionary form: attributes(), Serializable.serialize(), from_dict() *)
(* A dictionary is the sequence of its <<key, value>> pairs, in order.      *)

StatusMessage_attributes == <<"message", "time">>

JobStatus_attributes ==
    <<"name", "state", "start_time", "complete_time", "fail_time", "messages">>

PipelineStatus_attributes ==
    <<"name", "state", "start_time", "complete_time", "fail_time",
      "messages", "jobs">>

StatusMessage_serialize(self) ==
    [i \in 1..Len(StatusMessage_attributes) |->
        <<StatusMessage_attributes[i], self[StatusMessage_attributes[i]]>>]

JobStatus_serialize(self) ==
    [i \in 1..Len(JobStatus_attributes) |->
        LET a == JobStatus_attributes[i]
        IN  <<a, IF a = "messages"
                 THEN [k \in 1..Len(self.messages) |->
                          StatusMessage_serialize(self.messages[k])]
                 ELSE self[a]>>]

PipelineStatus_serialize(self, objs) ==
    [i \in 1..Len(PipelineStatus_attributes) |->
        LET a == PipelineStatus_attributes[i]
        IN  <<a, CASE a = "messages" ->
                        [k \in 1..Len(self.messages) |->
                            StatusMessage_serialize(self.messages[k])]
                   [] a = "jobs" ->
                        [k \in 1..Len(self.jobs) |->
                            JobStatus_serialize(objs[self.jobs[k]])]
                   [] OTHER -> self[a]>>]

\* d[key] of Python: the value, or a KeyError
HasKey(d, key) == \E i \in DOMAIN d : d[i][1] = key
Get(d, key) == d[CHOOSE i \in DOMAIN d : d[i][1] = key][2]
HasKeys(d, keys) == \A key \in keys : HasKey(d, key)
KeyError == [ok |-> FALSE, error |-> "KeyError"]

\* from_dict() with `time=d.get("time")`
StatusMessage_from_dict_with_get(d, now) ==
    IF HasKeys(d, {"message"})
    THEN [ok |-> TRUE,
          self |-> StatusMessage(Get(d, "message"),
                                 IF HasKey(d, "time") THEN Get(d, "time")
                                 ELSE None,
                                 now)]
    ELSE KeyError

StatusMessage_from_dict(d, now) ==
    IF HasKeys(d, {"message", "time"})
    THEN [ok |-> TRUE,
          self |-> StatusMessage(Get(d, "message"), Get(d, "time"), now)]
    ELSE KeyError

\* the list [StatusMessage.from_dict(_d) for _d in ds]
StatusMessages_from_dicts(ds, now) ==
    LET rs == [k \in DOMAIN ds |-> StatusMessage_from_dict(ds[k], now)]
    IN  IF \A k \in DOMAIN ds : rs[k].ok
        THEN [ok |-> TRUE, self |-> [k \in DOMAIN ds |-> rs[k].self]]
        ELSE KeyError

\* from_dict() without `job_status.fail_time = d["fail_time"]`
JobStatus_from_dict_without_fail_time(d, now) ==
    IF HasKeys(d, {"name", "state", "start_time", "complete_time", "fail_time",
                   "messages"})
    THEN LET messages == StatusMessages_from_dicts(Get(d, "messages"), now)
         IN  IF messages.ok
             THEN [ok |-> TRUE,
                   self |-> [JobStatus(Get(d, "name")) EXCEPT
                                !.state = Get(d, "state"),
                                !.start_time = Get(d, "start_time"),
                                !.complete_time = Get(d, "complete_time"),
                                !.messages = messages.self]]
             ELSE KeyError
    ELSE KeyError

JobStatus_from_dict(d, now) ==
    IF HasKeys(d, {"name", "state", "start_time", "complete_time", "fail_time",
                   "messages"})
    THEN LET messages == StatusMessages_from_dicts(Get(d, "messages"), now)
         IN  IF messages.ok
             THEN [ok |-> TRUE,
                   self |-> [JobStatus(Get(d, "name")) EXCEPT
                                !.state = Get(d, "state"),
                                !.start_time = Get(d, "start_time"),
                                !.complete_time = Get(d, "complete_time"),
                                !.fail_time = Get(d, "fail_time"),
                                !.messages = messages.self]]
             ELSE KeyError
    ELSE KeyError

\* from_dict() that raises a ValueError when d["state"] is no PipelineState
PipelineStatus_from_dict_validating(d, now) ==
    IF HasKeys(d, {"name", "state", "start_time", "complete_time", "fail_time",
                   "messages", "jobs"})
    THEN LET messages == StatusMessages_from_dicts(Get(d, "messages"), now)
             ds == Get(d, "jobs")
             jobs == [k \in DOMAIN ds |-> JobStatus_from_dict(ds[k], now)]
         IN  IF Get(d, "state") \notin PipelineState
             THEN [ok |-> FALSE, error |-> "ValueError"]
             ELSE IF messages.ok /\ \A k \in DOMAIN ds : jobs[k].ok
             THEN [ok |-> TRUE,
                   self |-> [PipelineStatus(Get(d, "name")) EXCEPT
                                !.state = Get(d, "state"),
                                !.start_time = Get(d, "start_time"),
                                !.complete_time = Get(d, "complete_time"),
                                !.fail_time = Get(d, "fail_time"),
                                !.messages = messages.self,
                                !.jobs = [k \in DOMAIN ds |-> k]],
                   objs |-> [k \in DOMAIN ds |-> jobs[k].self]]
             ELSE KeyError
    ELSE KeyError

\* `objs` of the result are the JobStatus instances the call allocates, and
\* `jobs` of the instance holds the references to them
PipelineStatus_from_dict(d, now) ==
    IF HasKeys(d, {"name", "state", "start_time", "complete_time", "fail_time",
                   "messages", "jobs"})
    THEN LET messages == StatusMessages_from_dicts(Get(d, "messages"), now)
             ds == Get(d, "jobs")
             jobs == [k \in DOMAIN ds |-> JobStatus_from_dict(ds[k], now)]
         IN  IF messages.ok /\ \A k \in DOMAIN ds : jobs[k].ok
             THEN [ok |-> TRUE,
                   self |-> [PipelineStatus(Get(d, "name")) EXCEPT
                                !.state = Get(d, "state"),
                                !.start_time = Get(d, "start_time"),
                                !.complete_time = Get(d, "complete_time"),
                                !.fail_time = Get(d, "fail_time"),
                                !.messages = messages.self,
                                !.jobs = [k \in DOMAIN ds |-> k]],
                   objs |-> [k \in DOMAIN ds |-> jobs[k].self]]
             ELSE KeyError
    ELSE KeyError

----------------------------------------------------------------------------
(* The dictionaries a caller hands to from_dict(): the dictionary form of *)
(* an instance, as written, or with one change made to it outside.        *)

\* values of "state" that are foreign to PipelineState, or to both classes
StateWords == {"SKIPPED", "PAUSED"}
\* values of "time": JSON null, the empty text, a time on no clock reading
TimeValues == {None, "", "2023-12-31T23:59:59"}

DropKey(d, key) == SelectSeq(d, LAMBDA p : p[1] # key)
SetKey(d, key, value) ==
    [i \in DOMAIN d |-> IF d[i][1] = key THEN <<key, value>> ELSE d[i]]

\* one change: `kind` is "none", "drop" (the key `key` is removed), "state"
\* or "time" (the value of that key becomes `value`); it is made in the
\* entry `job` of "jobs" (0: in the dictionary itself) and there in the
\* entry `message` of "messages" (0: in the dictionary itself)
Edit(kind, job, message, key, value) ==
    [kind |-> kind, job |-> job, message |-> message, key |-> key,
     value |-> value]

NoEdit == Edit("none", 0, 0, "", "")

MessageEdits(job, message) ==
    {Edit("drop", job, message, StatusMessage_attributes[i], "") :
        i \in DOMAIN StatusMessage_attributes}
    \cup {Edit("time", job, message, "time", t) : t \in TimeValues}

EntityEdits(job, attributes) ==
    {Edit("drop", job, 0, attributes[i], "") : i \in DOMAIN attributes}
    \cup {Edit("state", job, 0, "state", w) : w \in StateWords}

JobEdits(job, self) ==
    EntityEdits(job, JobStatus_attributes)
    \cup UNION {MessageEdits(job, k) : k \in DOMAIN self.messages}

PipelineEdits(self, objs) ==
    EntityEdits(0, PipelineStatus_attributes)
    \cup UNION {MessageEdits(0, k) : k \in DOMAIN self.messages}
    \cup UNION {JobEdits(k, objs[self.jobs[k]]) : k \in DOMAIN self.jobs}

EditMessage(d, e) ==
    CASE e.kind = "drop" -> DropKey(d, e.key)
      [] e.kind = "time" -> SetKey(d, "time", e.value)
      [] OTHER -> d

\* a change in the dictionary of a job or of a pipeline, or in a message
\* of its "messages"
EditEntity(d, e) ==
    IF e.message = 0
    THEN CASE e.kind = "drop"  -> DropKey(d, e.key)
           [] e.kind = "state" -> SetKey(d, "state", e.value)
           [] OTHER -> d
    ELSE SetKey(d, "messages",
                [Get(d, "messages") EXCEPT ![e.message] = EditMessage(@, e)])

EditPipeline(d, e) ==
    IF e.job = 0
    THEN EditEntity(d, e)
    ELSE SetKey(d, "jobs", [Get(d, "jobs") EXCEPT ![e.job] = EditEntity(@, e)])

\* `time or etau.get_isotime()` calls get_isotime() when `time` is false
StatusMessage_reads_clock(time) == ~Truthy(time)

----------------------------------------------------------------------------
(* The state and the calls *)

\* the handles a caller holds: the values add_job returned, and active_job
Handles == 1..Len(job_objs)

\* the call of `op` returned `value`
Returned(op, value) == [op |-> op, raised |-> FALSE, value |-> value]

\* no call made yet on an instance with `n` jobs
NoHistory(n) ==
    [calls                |-> <<>>,
     job_calls            |-> [k \in 1..n |-> <<>>],
     add_job              |-> <<>>,
     set_publish_callback |-> None,
     replaced             |-> FALSE,
     from_dict            |-> FALSE]

Init ==
    /\ \E name \in PipelineNames : status = PipelineStatus(name)
    /\ job_objs = <<>>
    /\ clock = 1
    /\ ret = Returned("PipelineStatus", None)
    /\ invoked = <<>>
    /\ ncalls = 0
    /\ history = NoHistory(0)

\* one more call is made
Called == ncalls < MaxCalls /\ ncalls' = ncalls + 1

\* a call of the method `op` of the pipeline, which appends to its log
PipelineCall(op, message, r, now) ==
    /\ Called
    /\ status' = r.self
    /\ clock' = now
    /\ ret' = Returned("PipelineStatus." \o op, r.ret)
    /\ invoked' = <<>>
    /\ history' = [history EXCEPT
                      !.calls = Append(@, [op |-> op, message |-> message])]
    /\ UNCHANGED job_objs

\* a call of the method `op` of the job `j`, which appends to its log
JobCall(op, j, message, r, now) ==
    /\ Called
    /\ job_objs' = [job_objs EXCEPT ![j] = r.self]
    /\ clock' = now
    /\ ret' = Returned("JobStatus." \o op, r.ret)
    /\ invoked' = <<>>
    /\ history' = [history EXCEPT
                      !.job_calls[j] = Append(@, [op |-> op, message |-> message])]
    /\ UNCHANGED status

set_publish_callback(publish_callback) ==
    LET r == PipelineStatus_set_publish_callback(status, publish_callback)
    IN  /\ Called
        /\ status' = r.self
        /\ ret' = Returned("PipelineStatus.set_publish_callback", r.ret)
        /\ invoked' = <<>>
        /\ history' = [history EXCEPT
                          !.set_publish_callback = publish_callback,
                          !.replaced =
                              \/ @
                              \/ /\ Truthy(history.set_publish_callback)
                                 /\ publish_callback # history.set_publish_callback]
        /\ UNCHANGED <<job_objs, clock>>

SetPublishCallback ==
    \E publish_callback \in Callbacks \cup {None} :
        set_publish_callback(publish_callback)

Publish ==
    LET r == PipelineStatus_publish(status)
    IN  /\ Called
        /\ status' = r.self
        /\ ret' = [op |-> "PipelineStatus.publish", raised |-> r.raised,
                   value |-> r.ret]
        /\ invoked' = r.invoked
        /\ UNCHANGED <<job_objs, clock, history>>

add_job(name) ==
    LET r == PipelineStatus_add_job(status, job_objs, name)
    IN  /\ Called
        /\ status' = r.self
        /\ job_objs' = r.objs
        /\ ret' = Returned("PipelineStatus.add_job", r.ret)
        /\ invoked' = <<>>
        /\ history' = [history EXCEPT !.add_job = Append(@, name),
                                      !.job_calls = Append(@, <<>>),
                                      !.from_dict = FALSE]
        /\ UNCHANGED clock

AddJob == \E name \in JobNames : add_job(name)

add_message(message, now) ==
    PipelineCall("add_message", message,
                 PipelineStatus_add_message(status, message, now), now)

start(message, now) ==
    PipelineCall("start", Message("PipelineStatus.start", message),
                 PipelineStatus_start(status, message, now), now)

complete(message, now) ==
    PipelineCall("complete", Message("PipelineStatus.complete", message),
                 PipelineStatus_complete(status, message, now), now)

fail(message, now) ==
    PipelineCall("fail", Message("PipelineStatus.fail", message),
                 PipelineStatus_fail(status, message, now), now)

job_add_message(j, message, now) ==
    JobCall("add_message", j, message,
            JobStatus_add_message(job_objs[j], message, now), now)

job_skip(j, message, now) ==
    JobCall("skip", j, Message("JobStatus.skip", message),
            JobStatus_skip(job_objs[j], message, now), now)

job_start(j, message, now) ==
    JobCall("start", j, Message("JobStatus.start", message),
            JobStatus_start(job_objs[j], message, now), now)

job_complete(j, message, now) ==
    JobCall("complete", j, Message("JobStatus.complete", message),
            JobStatus_complete(job_objs[j], message, now), now)

job_fail(j, message, now) ==
    JobCall("fail", j, Message("JobStatus.fail", message),
            JobStatus_fail(job_objs[j], message, now), now)

AddMessage == \E message \in Notes, now \in Readings : add_message(message, now)
Start == \E message \in Texts, now \in Readings : start(message, now)
Complete == \E message \in Texts, now \in Readings : complete(message, now)
Fail == \E message \in Texts, now \in Readings : fail(message, now)

JobAddMessage ==
    \E j \in Handles, message \in Notes, now \in Readings :
        job_add_message(j, message, now)
JobSkip ==
    \E j \in Handles, message \in Texts, now \in Readings :
        job_skip(j, message, now)
JobStart ==
    \E j \in Handles, message \in Texts, now \in Readings :
        job_start(j, message, now)
JobComplete ==
    \E j \in Handles, message \in Texts, now \in Readings :
        job_complete(j, message, now)
JobFail ==
    \E j \in Handles, message \in Texts, now \in Readings :
        job_fail(j, message, now)

\* The pipeline is written out and read back: the program goes on with the
\* instance from_dict built, on which no call has been made yet.
FromDict ==
    LET d == PipelineStatus_serialize(status, job_objs)
        r == PipelineStatus_from_dict(d, clock)
    IN  /\ Called
        /\ r.ok
        /\ status' = r.self
        /\ job_objs' = r.objs
        /\ ret' = Returned("PipelineStatus.from_dict", None)
        /\ invoked' = <<>>
        /\ history' = [history EXCEPT !.set_publish_callback = None,
                                      !.replaced = FALSE,
                                      !.from_dict = TRUE]
        /\ UNCHANGED clock

Next ==
    \/ SetPublishCallback
    \/ Publish
    \/ AddJob
    \/ AddMessage
    \/ Start
    \/ Complete
    \/ Fail
    \/ JobAddMessage
    \/ JobSkip
    \/ JobStart
    \/ JobComplete
    \/ JobFail

\* the calls of the construction and mutation API
Spec == Init /\ [][Next]_vars

NextReload ==
    \/ Next
    \/ FromDict

\* the same, with the pipeline written out and read back at some point
SpecReload == Init /\ [][NextReload]_vars

\* the messages of all the logs
AllMessages ==
    {status.messages[k] : k \in DOMAIN status.messages}
    \cup UNION {{job_objs[j].messages[k] : k \in DOMAIN job_objs[j].messages} :
                  j \in Handles}

\* A call cls.from_dict(d) that leaves the pipeline alone: the caller gets
\* the instance built from `d`, or the error.  `arg` of the result of the
\* call keeps the dictionary and the change that made it.
from_dict(cls, d, e, r, now) ==
    /\ Called
    /\ clock' = now
    /\ ret' = [op     |-> cls \o ".from_dict",
               raised |-> ~r.ok,
               value  |-> IF ~r.ok THEN r.error
                          ELSE IF cls = "PipelineStatus"
                          THEN [self |-> r.self, objs |-> r.objs]
                          ELSE r.self,
               arg    |-> [d |-> d, edit |-> e]]
    /\ invoked' = <<>>
    /\ UNCHANGED <<status, job_objs, history>>

PipelineStatusFromDict ==
    \E e \in PipelineEdits(status, job_objs) \cup {NoEdit}, now \in Readings :
        LET d == EditPipeline(PipelineStatus_serialize(status, job_objs), e)
        IN  from_dict("PipelineStatus", d, e, PipelineStatus_from_dict(d, now),
                      now)

JobStatusFromDict ==
    \E j \in Handles, now \in Readings :
        \E e \in JobEdits(0, job_objs[j]) \cup {NoEdit} :
            LET d == EditEntity(JobStatus_serialize(job_objs[j]), e)
            IN  from_dict("JobStatus", d, e, JobStatus_from_dict(d, now), now)

StatusMessageFromDict ==
    \E m \in AllMessages, now \in Readings :
        \E e \in MessageEdits(0, 0) \cup {NoEdit} :
            LET d == EditMessage(StatusMessage_serialize(m), e)
            IN  from_dict("StatusMessage", d, e,
                          StatusMessage_from_dict(d, now), now)

\* A call StatusMessage(message) or StatusMessage(message, time=time)
NewStatusMessage ==
    \E message \in Notes, time \in TimeValues \cup {NoArg}, now \in Readings :
        LET given == IF time = NoArg THEN None ELSE time
        IN  /\ Called
            /\ clock' = now
            /\ ret' = [op     |-> "StatusMessage",
                       raised |-> FALSE,
                       value  |-> StatusMessage(message, given, now),
                       arg    |-> [message |-> message, time |-> time],
                       clock_read |-> StatusMessage_reads_clock(given)]
            /\ invoked' = <<>>
            /\ UNCHANGED <<status, job_objs, history>>

NextParse ==
    \/ Next
    \/ PipelineStatusFromDict
    \/ JobStatusFromDict
    \/ StatusMessageFromDict
    \/ NewStatusMessage

\* the calls of the mutation API, of from_dict() on dictionaries from
\* outside and of the StatusMessage constructor
SpecParse == Init /\ [][NextParse]_vars

----------------------------------------------------------------------------
(* Properties *)

\* the attributes of a pipeline, with each job in place of the reference to it
Projected(self, objs) ==
    [name          |-> self.name,
     state         |-> self.state,
     start_time    |-> self.start_time,
     complete_time |-> self.complete_time,
     fail_time     |-> self.fail_time,
     messages      |-> self.messages,
     jobs          |-> [k \in DOMAIN self.jobs |-> objs[self.jobs[k]]]]

\* the texts of a log, in order
TextsOf(messages) == [k \in DOMAIN messages |-> messages[k].message]

\* `new` is `old` with one message of text `text` appended
Appended(old, new, text) ==
    /\ Len(new) = Len(old) + 1
    /\ SubSeq(new, 1, Len(old)) = old
    /\ Last(new).message = text

\* every attribute of a pipeline: those of the dictionary form and the two
\* private ones, with the active job in place of the reference to it
EveryField(self, objs) ==
    [attributes        |-> Projected(self, objs),
     _active_job       |-> IF self._active_job = NoJob THEN None
                           ELSE objs[self._active_job],
     _publish_callback |-> self._publish_callback]

\* C1: Round trip, as stated.  For the pipeline in every state the
\* construction and mutation calls reach, from_dict of the dictionary form
\* gives an instance equal to the pipeline in every attribute, the active
\* job and the publish callback among them.
C1_RoundTripEveryField ==
    LET d == PipelineStatus_serialize(status, job_objs)
        r == PipelineStatus_from_dict(d, clock)
    IN  /\ r.ok
        /\ EveryField(r.self, r.objs) = EveryField(status, job_objs)

\* C1: Round trip, amended.  For the pipeline, each of its jobs and each
\* message of the logs, in every state the construction and mutation calls
\* reach: from_dict of the dictionary form succeeds and gives an instance
\* with the same attributes as attributes() lists them, and the dictionary
\* form of that instance is the same dictionary, key for key.  The
\* pipeline from_dict gives has no active job and no publish callback.
C1_RoundTrip ==
    /\ LET d == PipelineStatus_serialize(status, job_objs)
           r == PipelineStatus_from_dict(d, clock)
       IN  /\ r.ok
           /\ Projected(r.self, r.objs) = Projected(status, job_objs)
           /\ r.self._active_job = NoJob
           /\ r.self._publish_callback = None
           /\ PipelineStatus_serialize(r.self, r.objs) = d
    /\ \A j \in Handles :
           LET d == JobStatus_serialize(job_objs[j])
               r == JobStatus_from_dict(d, clock)
           IN  /\ r.ok
               /\ r.self = job_objs[j]
               /\ JobStatus_serialize(r.self) = d
    /\ \A m \in AllMessages :
           LET d == StatusMessage_serialize(m)
               r == StatusMessage_from_dict(d, clock)
           IN  /\ r.ok
               /\ r.self = m
               /\ StatusMessage_serialize(r.self) = d

\* a failed job that never started, a job with an empty log that is the
\* active one, and an unstarted pipeline with a message
C1_Witness ==
    /\ status.start_time = None
    /\ status._active_job # NoJob
    /\ job_objs[status._active_job].messages = <<>>
    /\ status.messages # <<>>
    /\ \E j \in Handles : /\ job_objs[j].fail_time # None
                          /\ job_objs[j].start_time = None
    /\ \E j \in Handles : job_objs[j].messages = <<>>

\* C2: Active-job tracking.  Right after add_job(n), whatever the state of
\* the job that was active before and whether or not there was one,
\* active_job is a job named n in state QUEUED.
C2_ActiveJobTracking ==
    ret.op = "PipelineStatus.add_job" =>
        LET a == PipelineStatus_active_job(status)
        IN  /\ a \in Handles
            /\ job_objs[a].name = Last(history.add_job)
            /\ job_objs[a].state = "QUEUED"

\* add_job has just been called while the active job was FAILED
C2_Witness ==
    /\ ret.op = "PipelineStatus.add_job"
    /\ Len(status.jobs) >= 2
    /\ job_objs[status.jobs[Len(status.jobs) - 1]].state = "FAILED"
    /\ job_objs[Last(status.jobs)].name # job_objs[status.jobs[Len(status.jobs) - 1]].name

\* C3, as claimed: active_job is none with jobs empty, or it is the last
\* entry of jobs, also in an instance from_dict built.
C3_ActiveJobIsLastJob ==
    \/ PipelineStatus_active_job(status) = NoJob /\ status.jobs = <<>>
    \/ status.jobs # <<>> /\ PipelineStatus_active_job(status) = Last(status.jobs)

\* C3, amended: the same, but for an instance from_dict built on which
\* add_job has not been called yet: its active_job is none whatever its jobs.
C3_ActiveJobIsLastJobOrUnset ==
    IF history.from_dict
    THEN PipelineStatus_active_job(status) = NoJob
    ELSE C3_ActiveJobIsLastJob

\* an instance from_dict built, with jobs and no active job
C3_Witness ==
    /\ history.from_dict
    /\ Len(status.jobs) >= 2
    /\ PipelineStatus_active_job(status) = NoJob

\* a call of one of the four transitions of the job j
JobTransition(j) ==
    \E message \in Texts, now \in Readings :
        \/ job_skip(j, message, now)
        \/ job_start(j, message, now)
        \/ job_complete(j, message, now)
        \/ job_fail(j, message, now)

\* C4, as claimed: each transition of a job appends one message to the log
\* of the job and returns the timestamp of that message.
C4_TransitionReturnsTimestamp ==
    [][\A j \in Handles :
          JobTransition(j) =>
              /\ Len(job_objs'[j].messages) = Len(job_objs[j].messages) + 1
              /\ ret'.value = Last(job_objs'[j].messages).time]_vars

\* C4, amended: each transition of a job appends one message to the log of
\* the job and returns None; the timestamp of that message is what
\* add_message returns, and start, complete and fail keep it in start_time,
\* complete_time and fail_time.
C4_TransitionReturnsNone ==
    [][\A j \in Handles :
          /\ JobTransition(j) =>
                /\ Len(job_objs'[j].messages) = Len(job_objs[j].messages) + 1
                /\ SubSeq(job_objs'[j].messages, 1, Len(job_objs[j].messages))
                       = job_objs[j].messages
                /\ ~ret'.raised
                /\ ret'.value = None
          /\ \A message \in Texts, now \in Readings :
                /\ job_start(j, message, now) =>
                       job_objs'[j].start_time = Last(job_objs'[j].messages).time
                /\ job_complete(j, message, now) =>
                       job_objs'[j].complete_time = Last(job_objs'[j].messages).time
                /\ job_fail(j, message, now) =>
                       job_objs'[j].fail_time = Last(job_objs'[j].messages).time
          /\ \A message \in Notes, now \in Readings :
                job_add_message(j, message, now) =>
                    /\ ~ret'.raised
                    /\ ret'.value = Last(job_objs'[j].messages).time]_vars

\* a transition of a job that had other transitions before has just returned
C4_Witness ==
    /\ ret.op \in {"JobStatus.skip", "JobStatus.start", "JobStatus.complete",
                   "JobStatus.fail"}
    /\ ret.value = None
    /\ \E j \in Handles : Len(job_objs[j].messages) >= 3

\* C5: Last write wins.  When the last two calls on a job were start() and
\* then fail(), the job is FAILED, its start_time is the time of the message
\* start() appended and its fail_time the time of the message fail() appended.
C5_LastWriteWins ==
    \A j \in Handles :
        LET c == history.job_calls[j]
            n == Len(c)
            job == job_objs[j]
        IN  (n >= 2 /\ c[n - 1].op = "start" /\ c[n].op = "fail") =>
                /\ job.state = "FAILED"
                /\ Len(job.messages) = n
                /\ job.start_time = job.messages[n - 1].time
                /\ job.fail_time = job.messages[n].time

\* start() then fail(), at different times, on a job that had finished
C5_Witness ==
    \E j \in Handles :
        LET c == history.job_calls[j]
        IN  /\ Len(c) = 3
            /\ c[1].op \in {"complete", "fail", "skip"}
            /\ c[2].op = "start"
            /\ c[3].op = "fail"
            /\ job_objs[j].start_time # job_objs[j].fail_time

\* C6: Order preservation.  The texts of each log are the texts of the
\* add_message calls on its owner (those the transitions make included),
\* in the order of the calls, and the names of jobs are the names of the
\* add_job calls, in the order of the calls.
C6_OrderPreservation ==
    /\ TextsOf(status.messages) = TextsOf(history.calls)
    /\ \A j \in Handles :
           TextsOf(job_objs[j].messages) = TextsOf(history.job_calls[j])
    /\ [k \in DOMAIN status.jobs |-> job_objs[status.jobs[k]].name]
           = history.add_job

\* two messages of different texts and two jobs of different names
C6_Witness ==
    /\ Len(status.messages) = 2
    /\ status.messages[1].message # status.messages[2].message
    /\ Len(status.jobs) = 2
    /\ job_objs[status.jobs[1]].name # job_objs[status.jobs[2]].name

\* the transition: one message of text `text` appended to the log of `old`,
\* the state `state`, and the time of that message in `field`
Transitioned(old, new, state, field, text) ==
    /\ Appended(old.messages, new.messages, text)
    /\ new.state = state
    /\ new[field] = Last(new.messages).time
    /\ new[field] # None

\* C7: No transition is rejected.  start, complete and fail of a pipeline
\* and of a job can be called in every state, and each returns after it
\* appended one message with the given text to the log of its own object,
\* set the state to RUNNING, COMPLETE or FAILED and set start_time,
\* complete_time or fail_time to the time of that message.
C7_NoTransitionRejected ==
    /\ [](ncalls < MaxCalls =>
            \A message \in Texts, now \in Readings :
                /\ ENABLED start(message, now)
                /\ ENABLED complete(message, now)
                /\ ENABLED fail(message, now)
                /\ \A j \in Handles :
                       /\ ENABLED job_start(j, message, now)
                       /\ ENABLED job_complete(j, message, now)
                       /\ ENABLED job_fail(j, message, now))
    /\ [][\A message \in Texts, now \in Readings :
             /\ start(message, now) =>
                    /\ Transitioned(status, status', "RUNNING", "start_time",
                                    Message("PipelineStatus.start", message))
                    /\ ~ret'.raised
             /\ complete(message, now) =>
                    /\ Transitioned(status, status', "COMPLETE", "complete_time",
                                    Message("PipelineStatus.complete", message))
                    /\ ~ret'.raised
             /\ fail(message, now) =>
                    /\ Transitioned(status, status', "FAILED", "fail_time",
                                    Message("PipelineStatus.fail", message))
                    /\ ~ret'.raised
             /\ \A j \in Handles :
                    /\ job_start(j, message, now) =>
                           /\ Transitioned(job_objs[j], job_objs'[j], "RUNNING",
                                           "start_time",
                                           Message("JobStatus.start", message))
                           /\ ~ret'.raised
                    /\ job_complete(j, message, now) =>
                           /\ Transitioned(job_objs[j], job_objs'[j], "COMPLETE",
                                           "complete_time",
                                           Message("JobStatus.complete", message))
                           /\ ~ret'.raised
                    /\ job_fail(j, message, now) =>
                           /\ Transitioned(job_objs[j], job_objs'[j], "FAILED",
                                           "fail_time",
                                           Message("JobStatus.fail", message))
                           /\ ~ret'.raised]_vars

\* a job that has just started after it had failed, in a pipeline that
\* has completed
C7_Witness ==
    /\ ret.op = "JobStatus.start"
    /\ status.state = "COMPLETE"
    /\ \E j \in Handles :
           LET c == history.job_calls[j]
           IN  /\ Len(c) = 2
               /\ c[1].op = "fail"
               /\ c[2].op = "start"
               /\ c[2].message = "note"
               /\ job_objs[j].state = "RUNNING"

\* C8: No-op publish.  publish() with no callback registered returns without
\* an error and leaves every field of the pipeline and of its jobs as it was.
C8_NoOpPublish ==
    [][(Publish /\ ~Truthy(status._publish_callback)) =>
           /\ ~ret'.raised
           /\ invoked' = <<>>
           /\ status' = status
           /\ job_objs' = job_objs
           /\ clock' = clock]_vars

\* publish() has just returned on a pipeline with a job, a message and no
\* callback
C8_Witness ==
    /\ ret.op = "PipelineStatus.publish"
    /\ status._publish_callback = None
    /\ status.messages # <<>>
    /\ status.jobs # <<>>
    /\ PipelineStatus_active_job(status) # NoJob

\* C9: The publish callback is a single slot.  publish() calls the function
\* registered last, once, with the pipeline itself, before it returns, and
\* no function registered before that one.
C9_SingleSlot ==
    (ret.op = "PipelineStatus.publish" /\ Truthy(history.set_publish_callback)) =>
        invoked = <<[callback |-> history.set_publish_callback, arg |-> status]>>

\* publish() has just called a function that was registered in place of
\* another one
C9_Witness ==
    /\ ret.op = "PipelineStatus.publish"
    /\ history.replaced
    /\ Len(invoked) = 1
    /\ invoked[1].callback = "observer"

\* C10: When the registered callback raises, publish() ends with that error,
\* has called the callback once, and has changed no field: the callback is
\* still registered.
C10_CallbackErrorPropagates ==
    [][(/\ Publish
        /\ Truthy(status._publish_callback)
        /\ CallCallback(status._publish_callback, status).raised) =>
           /\ ret'.raised
           /\ ret'.value = CallCallback(status._publish_callback, status).value
           /\ invoked' = <<[callback |-> status._publish_callback, arg |-> status]>>
           /\ status' = status
           /\ job_objs' = job_objs]_vars

\* publish() has just ended with the error of the callback
C10_Witness ==
    /\ ret.op = "PipelineStatus.publish"
    /\ ret.raised
    /\ ret.value = CallbackError
    /\ status._publish_callback = "faulty"
    /\ status.jobs # <<>>


\* the last call was a from_dict() on a dictionary from outside
Parsed ==
    /\ ret.op \in {"PipelineStatus.from_dict", "JobStatus.from_dict",
                   "StatusMessage.from_dict"}
    /\ "arg" \in DOMAIN ret

\* C11: Missing key.  from_dict() of PipelineStatus, JobStatus or
\* StatusMessage on a dictionary that lacks one key of attributes(), in the
\* dictionary itself or in any entry of "messages" or "jobs" at any depth,
\* ends with an error and gives no instance.
C11_MissingKeyError ==
    Parsed /\ ret.arg.edit.kind = "drop"
        => /\ ret.raised
           /\ ret.value = KeyError.error

\* PipelineStatus.from_dict() has raised on a dictionary whose second job
\* has a message without "time"
C11_Witness ==
    /\ ret.op = "PipelineStatus.from_dict"
    /\ "arg" \in DOMAIN ret
    /\ ret.arg.edit = Edit("drop", 2, 1, "time", "")
    /\ ~HasKey(Get(Get(ret.arg.d, "jobs")[2], "messages")[1], "time")
    /\ ret.raised

\* C12: Unvalidated state.  from_dict() on a dictionary whose "state", of
\* the pipeline or of a job, is no member of the enumeration raises no
\* error, the instance holds that value, and the dictionary form of the
\* instance gives the same value back.
C12_UnvalidatedState ==
    Parsed /\ ret.arg.edit.kind = "state"
        => LET e == ret.arg.edit
               v == ret.value
           IN  /\ ~ret.raised
               /\ IF ret.op = "JobStatus.from_dict"
                  THEN /\ v.state = e.value
                       /\ Get(JobStatus_serialize(v), "state") = e.value
                  ELSE LET d == PipelineStatus_serialize(v.self, v.objs)
                       IN  IF e.job = 0
                           THEN /\ v.self.state = e.value
                                /\ Get(d, "state") = e.value
                           ELSE /\ v.objs[v.self.jobs[e.job]].state = e.value
                                /\ Get(Get(d, "jobs")[e.job], "state") = e.value

\* PipelineStatus.from_dict() has returned a pipeline whose second job is
\* in the state "PAUSED", which no enumeration has
C12_Witness ==
    /\ ret.op = "PipelineStatus.from_dict"
    /\ "arg" \in DOMAIN ret
    /\ ret.arg.edit = Edit("state", 2, 0, "state", "PAUSED")
    /\ "PAUSED" \notin JobState \cup PipelineState
    /\ ~ret.raised
    /\ ret.value.objs[2].state = "PAUSED"

\* C17: StatusMessage creation, as stated.  The time of the message made
\* by StatusMessage(message, time=t) is t for every text t, the empty one
\* too, and the clock is read exactly when no time is given; a message
\* made by StatusMessage.from_dict(d) has the time d["time"].
C17_TimeIsSuppliedValue ==
    /\ ret.op = "StatusMessage"
           => LET t == ret.arg.time
              IN  IF t \in {NoArg, None}
                  THEN ret.clock_read
                  ELSE ret.value.time = t /\ ~ret.clock_read
    /\ ret.op = "StatusMessage.from_dict" /\ ~ret.raised
           => LET t == Get(ret.arg.d, "time")
              IN  t # None => ret.value.time = t

\* the calls of the pipeline that add a job, a message or a transition
PipelineOps ==
    {"PipelineStatus.add_job", "PipelineStatus.add_message",
     "PipelineStatus.start", "PipelineStatus.complete", "PipelineStatus.fail"}

\* C13: No automatic retirement.  add_job and the start, complete, fail
\* and add_message of the pipeline leave every job that is in jobs before
\* the call as it was: name, state, the three timestamps and messages.  A
\* job that is RUNNING stays RUNNING.
C13_NoAutoRetire ==
    [][ret'.op \in PipelineOps
          => \A k \in DOMAIN status.jobs :
                /\ status'.jobs[k] = status.jobs[k]
                /\ job_objs'[status.jobs[k]] = job_objs[status.jobs[k]]]_vars

\* a job has been added while the first job was running, and the pipeline
\* has failed after that
C13_Witness ==
    /\ ret.op = "PipelineStatus.fail"
    /\ Len(status.jobs) = 2
    /\ status._active_job = 2
    /\ job_objs[1].state = "RUNNING"
    /\ status.state = "FAILED"

\* `old` is the beginning of `new`
IsPrefix(old, new) ==
    /\ Len(old) <= Len(new)
    /\ SubSeq(new, 1, Len(old)) = old

\* C14: Append-only.  In every call of the mutation API from every
\* reachable state, the messages of the pipeline and of each job before
\* the call are the beginning of the messages after it, jobs before the
\* call is the beginning of jobs after it, and the length of jobs changes
\* in add_job only, where it grows by one.
C14_AppendOnly ==
    [][/\ IsPrefix(status.messages, status'.messages)
       /\ IsPrefix(status.jobs, status'.jobs)
       /\ \A j \in Handles :
              /\ j \in DOMAIN job_objs'
              /\ IsPrefix(job_objs[j].messages, job_objs'[j].messages)
       /\ IF ret'.op = "PipelineStatus.add_job"
          THEN Len(status'.jobs) = Len(status.jobs) + 1
          ELSE Len(status'.jobs) = Len(status.jobs)]_vars

\* a job that was started after it had completed, and then started again
C14_Witness ==
    /\ ret.op = "JobStatus.start"
    /\ Len(status.jobs) = 1
    /\ LET c == history.job_calls[1]
       IN  /\ Len(c) = 3
           /\ c[1].op = "complete" /\ c[2].op = "start" /\ c[3].op = "start"
    /\ Len(job_objs[1].messages) = 3

\* C15: skip().  skip() can be called on a job in every state; it sets
\* the state to SKIPPED, appends one message, and leaves name, start_time,
\* complete_time and fail_time as they were.
C15_SkipFrame ==
    /\ [](ncalls < MaxCalls =>
            \A j \in Handles, message \in Texts, now \in Readings :
                ENABLED job_skip(j, message, now))
    /\ [][\A j \in Handles, message \in Texts, now \in Readings :
             job_skip(j, message, now) =>
                 /\ ~ret'.raised
                 /\ job_objs'[j].state = "SKIPPED"
                 /\ Appended(job_objs[j].messages, job_objs'[j].messages,
                             Message("JobStatus.skip", message))
                 /\ job_objs'[j].name = job_objs[j].name
                 /\ job_objs'[j].start_time = job_objs[j].start_time
                 /\ job_objs'[j].complete_time = job_objs[j].complete_time
                 /\ job_objs'[j].fail_time = job_objs[j].fail_time]_vars

\* a job that was skipped after it had started and failed
C15_Witness ==
    /\ ret.op = "JobStatus.skip"
    /\ \E j \in Handles :
           /\ Len(history.job_calls[j]) = 3
           /\ history.job_calls[j][3].op = "skip"
           /\ job_objs[j].state = "SKIPPED"
           /\ job_objs[j].start_time # None
           /\ job_objs[j].fail_time # None
           /\ job_objs[j].complete_time = None
           /\ Len(job_objs[j].messages) = 3

\* C16: add_message().  add_message() can be called in every state.  On a
\* job it appends one message to the log of the job and leaves its name,
\* state and three timestamps as they were.  On a pipeline it appends one
\* message to the log of the pipeline, returns the time of that message,
\* and leaves state, the timestamps, jobs, active_job and every job as
\* they were.
C16_AddMessageFrame ==
    /\ [](ncalls < MaxCalls =>
            \A message \in Notes, now \in Readings :
                /\ ENABLED add_message(message, now)
                /\ \A j \in Handles : ENABLED job_add_message(j, message, now))
    /\ [][\A message \in Notes, now \in Readings :
             /\ \A j \in Handles :
                    job_add_message(j, message, now) =>
                        /\ ~ret'.raised
                        /\ Appended(job_objs[j].messages, job_objs'[j].messages,
                                    message)
                        /\ job_objs' = [job_objs EXCEPT
                               ![j].messages = job_objs'[j].messages]
             /\ add_message(message, now) =>
                    /\ ~ret'.raised
                    /\ Appended(status.messages, status'.messages, message)
                    /\ ret'.value = Last(status'.messages).time
                    /\ status' = [status EXCEPT !.messages = status'.messages]
                    /\ job_objs' = job_objs]_vars

\* a message has been added to a failed pipeline with a running job
C16_Witness ==
    /\ ret.op = "PipelineStatus.add_message"
    /\ ret.value = Last(status.messages).time
    /\ status.state = "FAILED"
    /\ Len(status.messages) = 2
    /\ status._active_job # NoJob
    /\ job_objs[status._active_job].state = "RUNNING"

MilestoneTimes == {"start_time", "complete_time", "fail_time"}

\* state and timestamps of a job or a pipeline agree, and each timestamp
\* that is set is the time of a message of its log
Consistent(self) ==
    /\ self.state = "RUNNING" => self.start_time # None
    /\ self.state = "COMPLETE" => self.complete_time # None
    /\ self.state = "FAILED" => self.fail_time # None
    /\ self.state = "QUEUED" => \A f \in MilestoneTimes : self[f] = None
    /\ \A f \in MilestoneTimes :
           self[f] # None =>
               \E k \in DOMAIN self.messages : self.messages[k].time = self[f]

\* C18: State and timestamps.  For the pipeline and every job, under the
\* calls of the mutation API: RUNNING has start_time set, COMPLETE has
\* complete_time set, FAILED has fail_time set, QUEUED has none of the
\* three set; a timestamp that is set is never None again; every timestamp
\* that is set is the time of a message in the log of the same object.
C18_StateTimestampConsistency ==
    /\ [](/\ Consistent(status)
          /\ \A j \in Handles : Consistent(job_objs[j]))
    /\ [][\A f \in MilestoneTimes :
             /\ status[f] # None => status'[f] # None
             /\ \A j \in Handles :
                    job_objs[j][f] # None => job_objs'[j][f] # None]_vars

\* a running pipeline with a job that failed one clock reading after it
\* started
C18_Witness ==
    /\ status.state = "RUNNING"
    /\ status.start_time # None
    /\ \E j \in Handles :
           /\ job_objs[j].state = "FAILED"
           /\ job_objs[j].start_time = IsoTimes[1]
           /\ job_objs[j].fail_time = IsoTimes[2]
           /\ job_objs[j].complete_time = None

\* one of the calls `ops` is among `calls`
HasCalled(calls, ops) == \E k \in DOMAIN calls : calls[k].op \in ops

\* C19: Reachable states.  Under the calls of the mutation API no pipeline
\* and no job is ever READY and no pipeline is ever SKIPPED; a pipeline
\* or a job is QUEUED exactly as long as none of its start, complete, fail
\* (and skip) has been called, whatever add_message, add_job,
\* set_publish_callback and publish calls were made.
C19_QueuedOnlyInitially ==
    /\ status.state \notin {"READY", "SKIPPED"}
    /\ status.state = "QUEUED"
           <=> ~HasCalled(history.calls, {"start", "complete", "fail"})
    /\ \A j \in Handles :
           /\ job_objs[j].state # "READY"
           /\ job_objs[j].state = "QUEUED"
                  <=> ~HasCalled(history.job_calls[j],
                                 {"start", "complete", "fail", "skip"})

\* publish() has returned on a pipeline that is still queued after a
\* message and a job were added, with the job skipped
C19_Witness ==
    /\ ret.op = "PipelineStatus.publish"
    /\ status.state = "QUEUED"
    /\ Len(status.messages) = 1
    /\ Len(status.jobs) = 1
    /\ job_objs[1].state = "SKIPPED"

\* a call of a method of the job `j`
JobOp(j) ==
    \/ JobTransition(j)
    \/ \E message \in Notes, now \in Readings : job_add_message(j, message, now)

\* C20: Job handles.  The job add_job returned, and active_job, are
\* entries of jobs.  A transition or an add_message through the handle of
\* a job, the active one or not, changes that entry of jobs, which keeps
\* the name it was added with, and nothing else: the pipeline with its
\* state, timestamps, messages and active_job and every other job are as
\* before.  A pipeline is not FAILED because a job is.
C20_HandleIndependence ==
    /\ [](/\ status._active_job # NoJob =>
                 Last(status.jobs) = status._active_job
          /\ ret.op = "PipelineStatus.add_job" =>
                 /\ ret.value = status._active_job
                 /\ \E k \in DOMAIN status.jobs : status.jobs[k] = ret.value)
    /\ [][\A j \in Handles :
             JobOp(j) =>
                 /\ \E k \in DOMAIN status.jobs :
                        /\ status.jobs[k] = j
                        /\ job_objs[j].name = history.add_job[k]
                 /\ job_objs'[j] # job_objs[j]
                 /\ job_objs'[j].name = job_objs[j].name
                 /\ \A i \in Handles \ {j} : job_objs'[i] = job_objs[i]
                 /\ DOMAIN job_objs' = DOMAIN job_objs
                 /\ status' = status]_vars

\* the first job has failed through its handle while the second job is
\* the active one and the pipeline is running
C20_Witness ==
    /\ ret.op = "JobStatus.fail"
    /\ Len(status.jobs) = 2
    /\ status._active_job = 2
    /\ job_objs[1].state = "FAILED"
    /\ job_objs[2].state = "QUEUED"
    /\ status.state = "RUNNING"
    /\ status.fail_time = None
====
